---- MODULE Spec2Model ----
(***************************************************************************)
(* gdhttp: the request signer (vendor/bitbucket.org/mozillazg/gdauth) and  *)
(* the URL construction of the command line client (cmd/utils.go,          *)
(* cmd/root.go).                                                           *)
(*                                                                         *)
(* A Go string is a sequence of one-character strings.  Two kinds of text  *)
(* whose inner characters no code of the repository looks at are kept as   *)
(* one element: a formatted timestamp and a base64-encoded digest.         *)
(***************************************************************************)
EXTENDS Integers, Sequences, FiniteSets, TLC

VARIABLES
    pc,          \* position of the running program
    req,         \* the *http.Request under construction
    signer,      \* the gdauth.Signature in use
    hist,        \* the header operations applied to req so far, in order
    date,        \* local `date` of SignReq
    msg,         \* local `msg` of Signature.sign: the signed canonical string
    args,        \* positional arguments of the command line
    flags,       \* accessKeyID, accessKeySecret, noAuth (root.go globals)
    params,      \* request body read from standard input
    pa,          \* the PositionalArgument being built
    fill,        \* the values `uri` of fillURL takes, in order
    config,      \* the configuration file on disk
    sent         \* requests handed to http.Client.Do

signVars == <<req, signer, hist, date, msg>>
cliVars == <<args, flags, params, pa, fill, config, sent>>
vars == <<pc, req, signer, hist, date, msg, args, flags, params, pa, fill, config, sent>>

----------------------------------------------------------------------------
(* Bounds of the model *)

MaxHeaderOps == 2
MaxTailLen == 3
MaxItems == 2

----------------------------------------------------------------------------
(* Characters *)

lower == <<"a", "b", "c", "d", "e", "f", "g", "h", "i", "j", "k", "l", "m", "n", "o", "p", "q", "r", "s", "t", "u", "v", "w", "x", "y", "z">>
upper == <<"A", "B", "C", "D", "E", "F", "G", "H", "I", "J", "K", "L", "M", "N", "O", "P", "Q", "R", "S", "T", "U", "V", "W", "X", "Y", "Z">>
digits == <<"0", "1", "2", "3", "4", "5", "6", "7", "8", "9">>
hexDigits == <<"0", "1", "2", "3", "4", "5", "6", "7", "8", "9", "A", "B", "C", "D", "E", "F">>

IndexIn(tab, c) == CHOOSE i \in 1..Len(tab) : tab[i] = c
IsIn(tab, c) == \E i \in 1..Len(tab) : tab[i] = c

IsLower(c) == IsIn(lower, c)
IsUpper(c) == IsIn(upper, c)
IsDigit(c) == IsIn(digits, c)

punctCode == ("\n" :> 10) @@ (" " :> 32) @@ ("#" :> 35) @@ ("%" :> 37) @@ ("&" :> 38)
             @@ ("+" :> 43) @@ ("," :> 44) @@ ("-" :> 45) @@ ("." :> 46) @@ ("/" :> 47)
             @@ (":" :> 58) @@ (";" :> 59) @@ ("<" :> 60) @@ ("=" :> 61) @@ (">" :> 62)
             @@ ("?" :> 63) @@ ("_" :> 95) @@ ("~" :> 126)

\* the byte value of a character
Code(c) ==
    IF IsLower(c) THEN 96 + IndexIn(lower, c)
    ELSE IF IsUpper(c) THEN 64 + IndexIn(upper, c)
    ELSE IF IsDigit(c) THEN 47 + IndexIn(digits, c)
    ELSE punctCode[c]

ToLowerChar(c) == IF IsUpper(c) THEN lower[IndexIn(upper, c)] ELSE c
ToUpperChar(c) == IF IsLower(c) THEN upper[IndexIn(lower, c)] ELSE c

----------------------------------------------------------------------------
(* package strings, package sort *)

ToLower(s) == [i \in 1..Len(s) |-> ToLowerChar(s[i])]
ToUpper(s) == [i \in 1..Len(s) |-> ToUpperChar(s[i])]

HasPrefix(s, p) == Len(s) >= Len(p) /\ SubSeq(s, 1, Len(p)) = p

RECURSIVE Join(_, _)
Join(a, sep) ==
    IF Len(a) = 0 THEN <<>>
    ELSE IF Len(a) = 1 THEN a[1]
    ELSE a[1] \o sep \o Join(Tail(a), sep)

\* strings.Index: 0 when sep does not occur, else the first position
Index(s, sep) ==
    LET hits == {i \in 1..(Len(s) - Len(sep) + 1) : SubSeq(s, i, i + Len(sep) - 1) = sep}
    IN IF hits = {} THEN 0 ELSE CHOOSE i \in hits : \A j \in hits : i <= j

\* strings.Split with a non-empty separator
RECURSIVE Split(_, _)
Split(s, sep) ==
    LET i == Index(s, sep)
    IN IF i = 0 THEN <<s>>
       ELSE <<SubSeq(s, 1, i - 1)>> \o Split(SubSeq(s, i + Len(sep), Len(s)), sep)

\* s cut around the first sep: <<before, after, found>>
cutAt(s, i, n) ==
    IF i = 0 THEN <<s, <<>>, FALSE>>
    ELSE <<SubSeq(s, 1, i - 1), SubSeq(s, i + n, Len(s)), TRUE>>
Cut(s, sep) == cutAt(s, Index(s, sep), Len(sep))

\* strings.TrimLeft / strings.TrimRight: drop every leading / trailing
\* character that is in cutset
RECURSIVE TrimLeft(_, _)
TrimLeft(s, cutset) ==
    IF Len(s) > 0 /\ IsIn(cutset, s[1]) THEN TrimLeft(Tail(s), cutset) ELSE s

RECURSIVE TrimRight(_, _)
TrimRight(s, cutset) ==
    IF Len(s) > 0 /\ IsIn(cutset, s[Len(s)])
    THEN TrimRight(SubSeq(s, 1, Len(s) - 1), cutset) ELSE s

\* byte-wise lexicographic order of Go strings
RECURSIVE StrLess(_, _)
StrLess(a, b) ==
    IF Len(b) = 0 THEN FALSE
    ELSE IF Len(a) = 0 THEN TRUE
    ELSE IF Code(a[1]) # Code(b[1]) THEN Code(a[1]) < Code(b[1])
    ELSE StrLess(Tail(a), Tail(b))

\* sort.Strings over the keys of a map: the ascending sequence of a set
RECURSIVE SortStrings(_)
SortStrings(S) ==
    IF S = {} THEN <<>>
    ELSE LET m == CHOOSE x \in S : \A y \in S \ {x} : StrLess(x, y)
         IN <<m>> \o SortStrings(S \ {m})

----------------------------------------------------------------------------
(* net/http.Header *)

EmptyMap == [k \in {} |-> <<>>]

MapPut(m, k, v) == [x \in DOMAIN m \cup {k} |-> IF x = k THEN v ELSE m[x]]

IsTokenChar(c) == IsLower(c) \/ IsUpper(c) \/ IsDigit(c) \/ c \in {"-", ".", "_", "~"}

\* textproto.CanonicalMIMEHeaderKey
CanonicalMIMEHeaderKey(s) ==
    IF \E i \in 1..Len(s) : ~IsTokenChar(s[i]) THEN s
    ELSE [i \in 1..Len(s) |->
            IF i = 1 \/ s[i - 1] = "-" THEN ToUpperChar(s[i]) ELSE ToLowerChar(s[i])]

HeaderGet(h, key) ==
    LET k == CanonicalMIMEHeaderKey(key)
    IN IF k \in DOMAIN h /\ Len(h[k]) > 0 THEN h[k][1] ELSE <<>>

HeaderAdd(h, key, value) ==
    LET k == CanonicalMIMEHeaderKey(key)
    IN MapPut(h, k, (IF k \in DOMAIN h THEN h[k] ELSE <<>>) \o <<value>>)

HeaderSet(h, key, value) == MapPut(h, CanonicalMIMEHeaderKey(key), <<value>>)

----------------------------------------------------------------------------
(* net/url: query strings *)

\* url.shouldEscape in query-component mode: unreserved characters stay
QueryEscapeChar(c) ==
    IF IsLower(c) \/ IsUpper(c) \/ IsDigit(c) \/ c \in {"-", "_", ".", "~"} THEN <<c>>
    ELSE IF c = " " THEN <<"+">>
    ELSE <<"%", hexDigits[(Code(c) \div 16) + 1], hexDigits[(Code(c) % 16) + 1]>>

RECURSIVE QueryEscape(_)
QueryEscape(s) ==
    IF Len(s) = 0 THEN <<>> ELSE QueryEscapeChar(s[1]) \o QueryEscape(Tail(s))

KnownChars ==
    {lower[i] : i \in 1..26} \cup {upper[i] : i \in 1..26} \cup {digits[i] : i \in 1..10}
    \cup DOMAIN punctCode

IsHex(c) == IsDigit(c) \/ IsIn(<<"A", "B", "C", "D", "E", "F", "a", "b", "c", "d", "e", "f">>, c)
HexVal(c) == IF IsDigit(c) THEN IndexIn(digits, c) - 1
             ELSE 9 + IndexIn(<<"a", "b", "c", "d", "e", "f">>, ToLowerChar(c))

\* url.QueryUnescape: '+' is a space, %XX is the byte XX, a '%' not followed
\* by two hex digits is an error.  [ok, s]
RECURSIVE QueryUnescape(_)
QueryUnescape(s) ==
    IF Len(s) = 0 THEN [ok |-> TRUE, s |-> <<>>]
    ELSE IF s[1] = "%" THEN
        IF Len(s) >= 3 /\ IsHex(s[2]) /\ IsHex(s[3])
           /\ \E c \in KnownChars : Code(c) = 16 * HexVal(s[2]) + HexVal(s[3])
        THEN LET r == QueryUnescape(SubSeq(s, 4, Len(s)))
                 c == CHOOSE x \in KnownChars : Code(x) = 16 * HexVal(s[2]) + HexVal(s[3])
             IN [ok |-> r.ok, s |-> <<c>> \o r.s]
        ELSE [ok |-> FALSE, s |-> <<>>]
    ELSE LET r == QueryUnescape(Tail(s))
         IN [ok |-> r.ok, s |-> <<IF s[1] = "+" THEN " " ELSE s[1]>> \o r.s]

\* url.Values.Add
ValuesAdd(v, key, value) ==
    MapPut(v, key, (IF key \in DOMAIN v THEN v[key] ELSE <<>>) \o <<value>>)

\* url.ParseQuery as URL.Query() uses it: the query is cut at each '&', a
\* pair at its first '='; a pair that does not unescape is skipped and the
\* error dropped
RECURSIVE parseQuery(_, _)
addPair(m, k, v, rest) ==
    IF ~k.ok \/ ~v.ok THEN parseQuery(m, rest)
    ELSE parseQuery(ValuesAdd(m, k.s, v.s), rest)
parseKeyValue(m, kv, rest) == addPair(m, QueryUnescape(kv[1]), QueryUnescape(kv[2]), rest)
parsePair(m, c) ==
    IF Len(c[1]) = 0 THEN parseQuery(m, c[2])
    ELSE parseKeyValue(m, Cut(c[1], <<"=">>), c[2])
parseQuery(m, query) ==
    IF Len(query) = 0 THEN m ELSE parsePair(m, Cut(query, <<"&">>))

URLQuery(rawQuery) == parseQuery(EmptyMap, rawQuery)

\* url.Values.Encode: keys ascending, the values of a key in their stored order
RECURSIVE encodeValues(_, _)
encodeValues(k, vs) ==
    IF Len(vs) = 0 THEN <<>>
    ELSE <<QueryEscape(k) \o <<"=">> \o QueryEscape(vs[1])>> \o encodeValues(k, Tail(vs))

RECURSIVE encodeKeys(_, _)
encodeKeys(v, keys) ==
    IF Len(keys) = 0 THEN <<>>
    ELSE encodeValues(keys[1], v[keys[1]]) \o encodeKeys(v, Tail(keys))

ValuesEncode(v) == Join(encodeKeys(v, SortStrings(DOMAIN v)), <<"&">>)

----------------------------------------------------------------------------
(* vendor/bitbucket.org/mozillazg/gdauth/auth.go *)

\* a prefix that takes in every x- header
internalHeaderPrefixAnyX == <<"x", "-">>
internalHeaderPrefix == <<"x", "-", "g", "d", "-">>
internalAuthPrefix == <<"G", "e", "n", "e", "D", "o", "c", "k">>
HMACSHA1V1 == <<"h", "m", "a", "c", "-", "s", "h", "a", "1", "-", "v", "1">>

ContentTypeKey == <<"C", "o", "n", "t", "e", "n", "t", "-", "T", "y", "p", "e">>
ContentMD5Key == <<"C", "o", "n", "t", "e", "n", "t", "-", "M", "D", "5">>
DateKey == <<"D", "a", "t", "e">>
AuthorizationKey == <<"A", "u", "t", "h", "o", "r", "i", "z", "a", "t", "i", "o", "n">>

\* time.Now().UTC().Format(http.TimeFormat): the clock readings of the model,
\* already formatted; each is one element
Now == {<<"Mon, 02 Jan 2006 15:04:05 GMT">>, <<"Mon, 02 Jan 2006 15:04:06 GMT">>}

\* convertURLToString copies u.Query() into sortedQuery key by key with Add;
\* the keys come in Go's map order, the values of one key in their order
RECURSIVE copyQuery(_, _, _)
copyQuery(sortedQuery, query, keys) ==
    IF keys = {} THEN sortedQuery
    ELSE LET key == CHOOSE k \in keys : TRUE
             addAll[i \in 0..Len(query[key])] ==
                 IF i = 0 THEN sortedQuery ELSE ValuesAdd(addAll[i - 1], key, query[key][i])
         IN copyQuery(addAll[Len(query[key])], query, keys \ {key})

resourceOf(path, sortedQuery) ==
    IF Cardinality(DOMAIN sortedQuery) > 0
    THEN path \o <<"?">> \o ValuesEncode(sortedQuery)
    ELSE path
convertURLToString(u) ==
    resourceOf(u.Path, copyQuery(EmptyMap, URLQuery(u.RawQuery), DOMAIN URLQuery(u.RawQuery)))

\* the named result `internalHeaders map[string]string` of getInternalHeaders
\* starts as Go's zero value of a map, the nil map
internalHeadersZero == [isNil |-> TRUE, m |-> EmptyMap, panic |-> FALSE]

\* internalHeaders[key] = value: an assignment to an entry of a nil map is a
\* runtime panic
mapAssign(gm, key, value) ==
    IF gm.isNil THEN [gm EXCEPT !.panic = TRUE]
    ELSE [gm EXCEPT !.m = MapPut(gm.m, key, value)]

\* the range loop of getInternalHeaders; Go visits the keys in an unspecified
\* order, and neither the final map nor whether it panics depends on the order
RECURSIVE rangeHeaders(_, _, _)
rangeHeaders(headers, keys, gm) ==
    IF keys = {} \/ gm.panic THEN gm
    ELSE LET key == CHOOSE k \in keys : TRUE
         IN rangeHeaders(headers, keys \ {key},
                IF HasPrefix(ToLower(key), internalHeaderPrefix)
                THEN mapAssign(gm, key, Join(headers[key], <<",">>))
                ELSE gm)

getInternalHeaders(headers) == rangeHeaders(headers, DOMAIN headers, internalHeadersZero)

itemsOf(m, keys) == [i \in 1..Len(keys) |-> <<keys[i], m[keys[i]]>>]
sortMapByKey(m) == itemsOf(m, SortStrings(DOMAIN m))

\* lines 102-106
joinItems(sortedItems) ==
    Join([i \in 1..Len(sortedItems) |-> sortedItems[i][1] \o <<":">> \o sortedItems[i][2]],
         <<"\n">>)
headersString(headers) ==
    IF headers.panic THEN [panic |-> TRUE, s |-> <<>>]
    ELSE [panic |-> FALSE, s |-> joinItems(sortMapByKey(headers.m))]
\* [panic, s]
convertHeadersToString(reqHeaders) == headersString(getInternalHeaders(reqHeaders))

\* a sign without the branch on len(headersStr): always six segments
msgSliceSixAlways(reqMethod, contentType, contentMD5, resource, headersStr, d) ==
    <<reqMethod, contentMD5, contentType, d, headersStr, resource>>
\* msgSlice of Signature.sign
msgSlice(reqMethod, contentType, contentMD5, resource, headersStr, d) ==
    IF Len(headersStr) > 0
    THEN <<reqMethod, contentMD5, contentType, d, headersStr, resource>>
    ELSE <<reqMethod, contentMD5, contentType, d, resource>>

\* msg of Signature.sign
signMsg(reqMethod, contentType, contentMD5, resource, headersStr, d) ==
    Join(msgSlice(reqMethod, contentType, contentMD5, resource, headersStr, d), <<"\n">>)

\* HMAC-SHA1 is kept symbolic: the digest of a message under a key is the
\* term naming both; both branches of the switch on sign.Method use sha1
newHMACDigest(sg, m) == <<"hmac-sha1", sg.AccessKeySecret, m>>

\* base64.StdEncoding.EncodeToString of a symbolic digest: one element
EncodeToString(digest) == <<ToString(digest)>>

sign(sg, reqMethod, contentType, contentMD5, resource, headersStr, d) ==
    EncodeToString(newHMACDigest(sg,
        signMsg(reqMethod, contentType, contentMD5, resource, headersStr, d)))

\* fmt.Sprintf("%s %s:%s", internalAuthPrefix, sign.AccessKeyID, signStr)
authHeaderValue(sg, signStr) ==
    internalAuthPrefix \o <<" ">> \o sg.AccessKeyID \o <<":">> \o signStr

\* a setAuthHeader that adds to the values already there
setAuthHeaderAdds(sg, r, signStr) ==
    [r EXCEPT !.Header = HeaderAdd(@, AuthorizationKey, authHeaderValue(sg, signStr))]
setAuthHeader(sg, r, signStr) ==
    [r EXCEPT !.Header = HeaderSet(@, AuthorizationKey, authHeaderValue(sg, signStr))]

\* lines 40-41, with the result s of sign and the string m it signed
signedRequest(sg, r, d, m, s) ==
    [panic |-> FALSE,
     req |-> setAuthHeader(sg, [r EXCEPT !.Header = HeaderSet(@, DateKey, d)], s),
     msg |-> m,
     date |-> d]

signWith(sg, r, d, contentType, contentMD5, resource, headersStr) ==
    IF headersStr.panic
    THEN [panic |-> TRUE, req |-> r, msg |-> <<>>, date |-> <<>>]
    ELSE signedRequest(sg, r, d,
             signMsg(r.Method, contentType, contentMD5, resource, headersStr.s, d),
             sign(sg, r.Method, contentType, contentMD5, resource, headersStr.s, d))

\* SignReq with the clock reading d: [panic, req, msg, date].  A panic leaves
\* before the clock is read and before any header is written.
SignReq(sg, r, d) ==
    signWith(sg, r, d,
             HeaderGet(r.Header, ContentTypeKey),
             HeaderGet(r.Header, ContentMD5Key),
             convertURLToString(r.URL),
             convertHeadersToString(r.Header))

----------------------------------------------------------------------------
(* net/url: Parse and URL.String, for text that begins with a scheme and has
   no userinfo, no IPv6 literal and no '%' in its host *)

NoURL == [Scheme |-> <<>>, Host |-> <<>>, Path |-> <<>>, RawQuery |-> <<>>,
          ForceQuery |-> FALSE, Fragment |-> <<>>]

\* url.validOptionalPort: "" or ':' followed by digits only
validOptionalPort(port) ==
    Len(port) = 0 \/ (port[1] = ":" /\ \A i \in 2..Len(port) : IsDigit(port[i]))

\* the last position of c in s, 0 if none
LastIndex(s, c) ==
    LET hits == {i \in 1..Len(s) : s[i] = c}
    IN IF hits = {} THEN 0 ELSE CHOOSE i \in hits : \A j \in hits : j <= i

\* url.shouldEscape(c, encodeHost) for the characters that can reach a host
validHostChar(c) ==
    IsTokenChar(c) \/ c \in {"&", "+", ",", ";", "=", ":", "<", ">"}

\* url.parseHost
validHost(host) ==
    /\ \A i \in 1..Len(host) : validHostChar(host[i])
    /\ LET i == LastIndex(host, ":")
       IN i = 0 \/ validOptionalPort(SubSeq(host, i, Len(host)))

\* url.unescape in path and fragment mode: as in a query, but '+' stays
RECURSIVE plusEscaped(_)
plusEscaped(s) ==
    IF Len(s) = 0 THEN <<>>
    ELSE (IF s[1] = "+" THEN <<"%", "2", "B">> ELSE <<s[1]>>) \o plusEscaped(Tail(s))
PathUnescape(s) == QueryUnescape(plusEscaped(s))

\* URL.setPath and URL.setFragment store the unescaped text; the escaped
\* form is recomputed by URL.String
makeURL(scheme, host, path, rawQuery, force, frag) ==
    IF validHost(host) /\ PathUnescape(path).ok /\ PathUnescape(frag).ok
    THEN [ok |-> TRUE,
          u |-> [Scheme |-> scheme, Host |-> host, Path |-> PathUnescape(path).s,
                 RawQuery |-> rawQuery, ForceQuery |-> force,
                 Fragment |-> PathUnescape(frag).s]]
    ELSE [ok |-> FALSE, u |-> NoURL]

\* the authority ends at the first '/', which opens the path
parseHostPath(scheme, hc, rawQuery, force, frag) ==
    makeURL(scheme, hc[1], IF hc[3] THEN <<"/">> \o hc[2] ELSE <<>>, rawQuery, force, frag)

parseAuthority(scheme, rest, rawQuery, force, frag) ==
    IF HasPrefix(rest, <<"/", "/">>)
    THEN parseHostPath(scheme, Cut(SubSeq(rest, 3, Len(rest)), <<"/">>), rawQuery, force, frag)
    ELSE makeURL(scheme, <<>>, rest, rawQuery, force, frag)

\* a lone trailing '?' sets ForceQuery, else the text after the first '?' is
\* the raw query
parseQueryCut(scheme, qc, frag) ==
    parseAuthority(scheme, qc[1], qc[2], qc[3] /\ Len(qc[2]) = 0, frag)

parseScheme(sc, frag) == parseQueryCut(ToLower(sc[1]), Cut(sc[2], <<"?">>), frag)

parseNoFragment(fc) == parseScheme(Cut(fc[1], <<":">>), fc[2])

\* url.Parse: [ok, u]
ParseURL(rawurl) == parseNoFragment(Cut(rawurl, <<"#">>))

\* url.escape in path mode / fragment mode: what stays unescaped
pathCharStays(c) == IsTokenChar(c) \/ c \in {"&", "+", ",", "/", ":", ";", "="}
fragmentCharStays(c) == IsTokenChar(c) \/ c \in {"&", "+", ",", "/", ":", ";", "=", "?"}

percent(c) == <<"%", hexDigits[(Code(c) \div 16) + 1], hexDigits[(Code(c) % 16) + 1]>>

RECURSIVE escapePath(_)
escapePath(s) ==
    IF Len(s) = 0 THEN <<>>
    ELSE (IF pathCharStays(s[1]) THEN <<s[1]>> ELSE percent(s[1])) \o escapePath(Tail(s))

RECURSIVE escapeFragment(_)
escapeFragment(s) ==
    IF Len(s) = 0 THEN <<>>
    ELSE (IF fragmentCharStays(s[1]) THEN <<s[1]>> ELSE percent(s[1]))
         \o escapeFragment(Tail(s))

\* URL.String
URLString(u) ==
    (IF Len(u.Scheme) > 0 THEN u.Scheme \o <<":">> ELSE <<>>)
    \o (IF (Len(u.Scheme) > 0 \/ Len(u.Host) > 0) /\ (Len(u.Host) > 0 \/ Len(u.Path) > 0)
        THEN <<"/", "/">> ELSE <<>>)
    \o u.Host
    \o (IF Len(u.Path) > 0 /\ u.Path[1] # "/" /\ Len(u.Host) > 0 THEN <<"/">> ELSE <<>>)
    \o escapePath(u.Path)
    \o (IF u.ForceQuery \/ Len(u.RawQuery) > 0 THEN <<"?">> \o u.RawQuery ELSE <<>>)
    \o (IF Len(u.Fragment) > 0 THEN <<"#">> \o escapeFragment(u.Fragment) ELSE <<>>)

----------------------------------------------------------------------------
(* cmd/utils.go, cmd/root.go constants, the template substitution *)

defaultScheme == <<"h", "t", "t", "p">>
defaultHost == <<"l", "o", "c", "a", "l", "h", "o", "s", "t">>
queryItemFlag == <<"=">>
formatItemFlag == <<"=", "=">>
tokenLeft == <<"<">>
tokenRight == <<">">>

MethodGet == <<"G", "E", "T">>
MethodHead == <<"H", "E", "A", "D">>
MethodPost == <<"P", "O", "S", "T">>
MethodPut == <<"P", "U", "T">>
MethodPatch == <<"P", "A", "T", "C", "H">>
MethodDelete == <<"D", "E", "L", "E", "T", "E">>
MethodOptions == <<"O", "P", "T", "I", "O", "N", "S">>
MethodConnect == <<"C", "O", "N", "N", "E", "C", "T">>
MethodTrace == <<"T", "R", "A", "C", "E">>

\* a query pattern that accepts an empty key
reQueryItemAnyKey(item) ==
    LET e == Index(item, <<"=">>)
    IN e >= 1 /\ (e = Len(item) \/ item[e + 1] # "=")
\* reQueryItem  ^([^=]+)=($|[^=](.*)$)
reQueryItem(item) ==
    LET e == Index(item, <<"=">>)
    IN e >= 2 /\ (e = Len(item) \/ item[e + 1] # "=")

\* reURLOnlyPort  ^:\d+
reURLOnlyPort(uri) == Len(uri) >= 2 /\ uri[1] = ":" /\ IsDigit(uri[2])

\* a pattern that knows http:// only
reURLHasSchemeHttpOnly(uri) == HasPrefix(uri, <<"h", "t", "t", "p", ":", "/", "/">>)
\* reURLHasScheme  ^https?://
reURLHasScheme(uri) ==
    \/ HasPrefix(uri, <<"h", "t", "t", "p", ":", "/", "/">>)
    \/ HasPrefix(uri, <<"h", "t", "t", "p", "s", ":", "/", "/">>)

\* a fill pattern whose key may contain '='
reURLFormatAnyKey(item) == Index(item, <<"=", "=">>) >= 2
\* reURLFormat  ^([^=]+)==(.*)$
reURLFormat(item) ==
    LET e == Index(item, <<"=">>)
    IN e >= 2 /\ e < Len(item) /\ item[e + 1] = "="

\* $HOME/.gdhttp.json: absent, not decodable, or decoded to Config.Auths
NoConfigFile == [state |-> "missing", Auths |-> EmptyMap]
BadConfigFile == [state |-> "malformed", Auths |-> EmptyMap]
ConfigFile(auths) == [state |-> "ok", Auths |-> auths]

\* the zero PositionalArgument, with the error parsePositionalArguments returns
NoPositionalArgument ==
    [httpMethod |-> <<>>, uriStr |-> <<>>, requestItems |-> <<>>, uri |-> NoURL,
     err |-> "none"]

\* a method test that does not know CONNECT and TRACE
isValidMethodSeven(method) ==
    ToUpper(method) \in {MethodGet, MethodHead, MethodPost, MethodPut, MethodPatch,
                         MethodDelete, MethodOptions}
isValidMethod(method) ==
    ToUpper(method) \in {MethodGet, MethodHead, MethodPost, MethodPut, MethodPatch,
                         MethodDelete, MethodOptions, MethodConnect, MethodTrace}

\* reToken  <([^<>]+)>  at position i of s: the length of the match, 0 if none
tokenAt(s, i) ==
    LET stops == {j \in (i + 1)..Len(s) : s[j] \in {"<", ">"}}
        j == IF stops = {} THEN 0 ELSE CHOOSE x \in stops : \A y \in stops : x <= y
    IN IF s[i] = "<" /\ j > i + 1 /\ s[j] = ">" THEN j - i + 1 ELSE 0

\* substitute: reToken.ReplaceAllStringFunc, leftmost matches, left to right
RECURSIVE substituteFrom(_, _, _)
substituteFrom(s, i, mapping) ==
    IF i > Len(s) THEN <<>>
    ELSE LET n == tokenAt(s, i)
             m == TrimRight(TrimLeft(SubSeq(s, i, i + n - 1), tokenLeft), tokenRight)
         IN IF n = 0 THEN <<s[i]>> \o substituteFrom(s, i + 1, mapping)
            ELSE (IF m \in DOMAIN mapping THEN mapping[m] ELSE <<>>)
                 \o substituteFrom(s, i + n, mapping)

\* a substitution that runs again over its own result
substituteTwice(s, mapping) == substituteFrom(substituteFrom(s, 1, mapping), 1, mapping)
\* a substitution that replaces the first token only
substituteFirstOnly(s, mapping) ==
    LET hits == {i \in 1..Len(s) : tokenAt(s, i) > 0}
    IN IF hits = {} THEN s
       ELSE LET i == CHOOSE x \in hits : \A y \in hits : x <= y
            IN SubSeq(s, 1, i - 1)
               \o substituteFrom(SubSeq(s, i, i + tokenAt(s, i) - 1), 1, mapping)
               \o SubSeq(s, i + tokenAt(s, i), Len(s))
substitute(s, mapping) == substituteFrom(s, 1, mapping)

\* an expansion that keeps the colon
expandHostKeepsColon(uri) == IF HasPrefix(uri, <<":">>) THEN defaultHost \o uri ELSE uri
\* fillURL, lines 163-166: the leading colons are cut and defaultHost put first
expandHost(uri) ==
    IF HasPrefix(uri, <<":">>) THEN defaultHost \o TrimLeft(uri, <<":">>) ELSE uri

\* fillURL, lines 167-170
expandPort(uri) == IF reURLOnlyPort(uri) THEN defaultHost \o uri ELSE uri

\* a scheme step with no test for a scheme
addSchemeAlways(uri) == defaultScheme \o <<":", "/", "/">> \o uri
\* a scheme step that knows http:// only
addSchemeHttpOnly(uri) ==
    IF ~reURLHasSchemeHttpOnly(uri) THEN defaultScheme \o <<":", "/", "/">> \o uri ELSE uri
\* fillURL, lines 171-174
addScheme(uri) ==
    IF ~reURLHasScheme(uri) THEN defaultScheme \o <<":", "/", "/">> \o uri ELSE uri

\* fillURL, lines 176-182: later items overwrite earlier ones
RECURSIVE formatMapping(_, _)
formatMapping(mapping, requestItems) ==
    IF Len(requestItems) = 0 THEN mapping
    ELSE LET item == requestItems[1]
             arr == Split(item, formatItemFlag)
         IN formatMapping(IF reURLFormat(item) THEN MapPut(mapping, arr[1], arr[2])
                          ELSE mapping,
                          Tail(requestItems))

fillURL(uri, requestItems) ==
    substitute(addScheme(expandPort(expandHost(uri))), formatMapping(EmptyMap, requestItems))

\* buildURL, lines 123-129
RECURSIVE addQueryItems(_, _)
addQueryItems(queryItems, requestItems) ==
    IF Len(requestItems) = 0 THEN queryItems
    ELSE LET item == requestItems[1]
             arr == Split(item, queryItemFlag)
         IN addQueryItems(IF reQueryItem(item) THEN ValuesAdd(queryItems, arr[1], arr[2])
                          ELSE queryItems,
                          Tail(requestItems))

\* a merge that writes the query only when an item has the key=value form
mergeQueryIfItems(r, requestItems) ==
    IF ~r.ok \/ \A k \in 1..Len(requestItems) : ~reQueryItem(requestItems[k]) THEN r
    ELSE [ok |-> TRUE,
          u |-> [r.u EXCEPT !.RawQuery =
                    ValuesEncode(addQueryItems(URLQuery(r.u.RawQuery), requestItems))]]
\* buildURL, lines 123 and 130: the query is encoded anew in every case
mergeQuery(r, requestItems) ==
    IF ~r.ok THEN r
    ELSE [ok |-> TRUE,
          u |-> [r.u EXCEPT !.RawQuery =
                    ValuesEncode(addQueryItems(URLQuery(r.u.RawQuery), requestItems))]]

\* buildURL after fillURL: [ok, u]
parseAndMerge(filled, requestItems) == mergeQuery(ParseURL(filled), requestItems)

buildURL(uri, requestItems) == parseAndMerge(fillURL(uri, requestItems), requestItems)

----------------------------------------------------------------------------
(* A caller of the library: it builds a request, then signs it once *)

AKID == <<"A", "K", "I", "D">>
SECRET == <<"S", "E", "C", "R", "E", "T">>

XGdA == <<"X", "-", "G", "d", "-", "A">>
xgdb == <<"x", "-", "g", "d", "-", "b">>
XTrace == <<"X", "-", "T", "r", "a", "c", "e">>

NewURL(scheme, host, path, rawQuery) ==
    [NoURL EXCEPT !.Scheme = scheme, !.Host = host, !.Path = path, !.RawQuery = rawQuery]

NewRequest(method, u, body) ==
    [Method |-> method, URL |-> u, Header |-> EmptyMap, Body |-> body]

NoRequest == NewRequest(<<>>, NewURL(<<>>, <<>>, <<>>, <<>>), <<>>)
NoSigner == [Method |-> <<>>, AccessKeyID |-> <<>>, AccessKeySecret |-> <<>>]

LibQueries ==
    {<<>>,
     <<"a", "=", "1">>,
     <<"a", "=", "1", "&", "b", "=", "1">>,
     <<"b", "=", "1", "&", "a", "=", "1">>,
     <<"a", "=", "1", "&", "a", "=", "2">>,
     <<"a", "=", "2", "&", "a", "=", "1">>,
     <<"b", "=", "2", "&", "a", "=", "2", "&", "a", "=", "1">>}

LibRequests ==
    {NewRequest(m, NewURL(<<"h", "t", "t", "p">>, <<"h">>, <<"/", "v">>, q), <<>>) :
        m \in {MethodGet, MethodPost}, q \in LibQueries}

LibHeaderOps ==
    {[op |-> "Add", key |-> k, value |-> <<"1">>] :
        k \in {ContentTypeKey, ContentMD5Key, XGdA, xgdb, DateKey, AuthorizationKey, XTrace}}
    \cup {[op |-> "Add", key |-> XGdA, value |-> <<"2">>],
          [op |-> "Set", key |-> ContentTypeKey, value |-> <<"2">>],
          [op |-> "Set", key |-> xgdb, value |-> <<"2">>]}

applyHeaderOp(h, o) ==
    IF o.op = "Add" THEN HeaderAdd(h, o.key, o.value) ELSE HeaderSet(h, o.key, o.value)

CliIdle ==
    /\ args = <<>>
    /\ flags = [accessKeyID |-> <<>>, accessKeySecret |-> <<>>, noAuth |-> FALSE]
    /\ params = <<>>
    /\ pa = NoPositionalArgument
    /\ fill = <<>>
    /\ config = NoConfigFile
    /\ sent = <<>>

InitSign ==
    /\ pc = "lib"
    /\ req \in LibRequests
    /\ signer = [Method |-> HMACSHA1V1, AccessKeyID |-> AKID, AccessKeySecret |-> SECRET]
    /\ hist = <<>>
    /\ date = <<>>
    /\ msg = <<>>
    /\ CliIdle

\* req.Header.Add(key, value) / req.Header.Set(key, value) by the caller
LibHeaderOp ==
    \E o \in LibHeaderOps :
        /\ pc = "lib"
        /\ Len(hist) < MaxHeaderOps
        /\ req' = [req EXCEPT !.Header = applyHeaderOp(@, o)]
        /\ hist' = Append(hist, o)
        /\ UNCHANGED <<pc, signer, date, msg>>
        /\ UNCHANGED cliVars

signReturns(r) ==
    /\ pc' = IF r.panic THEN "libPanic" ELSE "libSigned"
    /\ req' = r.req
    /\ date' = r.date
    /\ msg' = r.msg
    /\ UNCHANGED <<signer, hist>>
    /\ UNCHANGED cliVars

\* sign.SignReq(req)
LibSignReq == \E d \in Now : pc = "lib" /\ signReturns(SignReq(signer, req, d))

NextSign == LibHeaderOp \/ LibSignReq

SpecSign == InitSign /\ [][NextSign]_vars

----------------------------------------------------------------------------
(* parsePositionalArguments as the program runs it: one step per statement
   group of fillURL, then the parse and query merge of buildURL *)

\* request items that begin with the first token
itemsFromFirst(a) == a
\* parsePositionalArguments, lines 72-76: the items after a first token that
\* is no method
itemsAfterURL(a) == SubSeq(a, 2, Len(a))

\* parsePositionalArguments, lines 54-78
ParseArgs ==
    /\ pc = "Run"
    /\ IF Len(args) < 1
       THEN /\ pa' = [pa EXCEPT !.err = "too few arguments"]
            /\ pc' = "exit"
            /\ fill' = fill
       ELSE /\ pa' = IF Len(args) = 1
                     THEN [pa EXCEPT !.httpMethod = MethodGet, !.uriStr = args[1],
                                     !.requestItems = <<>>]
                     ELSE IF isValidMethod(ToUpper(args[1]))
                     THEN [pa EXCEPT !.httpMethod = ToUpper(args[1]), !.uriStr = args[2],
                                     !.requestItems = SubSeq(args, 3, Len(args))]
                     ELSE [pa EXCEPT !.httpMethod = MethodGet, !.uriStr = args[1],
                                     !.requestItems = itemsAfterURL(args)]
            /\ fill' = <<pa'.uriStr>>
            /\ pc' = "fillHost"
    /\ UNCHANGED <<args, flags, params, config, sent>>
    /\ UNCHANGED signVars

FillStep(from, to, result) ==
    /\ pc = from
    /\ fill' = Append(fill, result)
    /\ pc' = to
    /\ UNCHANGED <<args, flags, params, pa, config, sent>>
    /\ UNCHANGED signVars

FillHost == FillStep("fillHost", "fillPort", expandHost(fill[Len(fill)]))
FillPort == FillStep("fillPort", "fillScheme", expandPort(fill[Len(fill)]))
FillScheme == FillStep("fillScheme", "fillSubst", addScheme(fill[Len(fill)]))
FillSubstitute ==
    FillStep("fillSubst", "parse",
             substitute(fill[Len(fill)], formatMapping(EmptyMap, pa.requestItems)))

\* a return that drops the error of url.Parse
buildURLReturnsNoError(r) ==
    /\ pa' = [pa EXCEPT !.uri = r.u]
    /\ pc' = "parsed"
    /\ UNCHANGED <<args, flags, params, fill, config, sent>>
    /\ UNCHANGED signVars
buildURLReturns(r) ==
    /\ pa' = IF r.ok THEN [pa EXCEPT !.uri = r.u] ELSE [pa EXCEPT !.err = "parse"]
    /\ pc' = IF r.ok THEN "parsed" ELSE "exit"
    /\ UNCHANGED <<args, flags, params, fill, config, sent>>
    /\ UNCHANGED signVars

\* buildURL, lines 118-131, and the return of parsePositionalArguments
BuildURL == pc = "parse" /\ buildURLReturns(parseAndMerge(fill[Len(fill)], pa.requestItems))

\* URL texts: a head and every tail of at most MaxTailLen characters out of a
\* digit, a letter, '/' and ':'
Tails == UNION {[1..n -> {"3", "f", "/", ":"}] : n \in 0..MaxTailLen}
Heads ==
    {<<>>, <<":">>,
     <<"h", "t", "t", "p", ":", "/", "/">>,
     <<"h", "t", "t", "p", "s", ":", "/", "/">>,
     <<"H", "T", "T", "P", ":", "/", "/">>,
     <<"h", "t", "t", "p", ":", "/">>}
\* with them, texts with a template token, a query and a fragment
URLTexts ==
    {h \o t : h \in Heads, t \in Tails}
    \cup {<<":", "/", "<", "f", ">">>,
     <<":", "/", "f", "?", "a", "=", "1">>,
     <<":", "/", "f", "#", "a">>,
     <<":", "3", "?", "a", "=", "1">>}

\* first tokens: the nine method names, some in other letter case, and two
\* texts that are no method name
FirstTokens ==
    {<<"G", "E", "T">>,
     <<"H", "E", "A", "D">>,
     <<"P", "O", "S", "T">>,
     <<"P", "U", "T">>,
     <<"P", "A", "T", "C", "H">>,
     <<"D", "E", "L", "E", "T", "E">>,
     <<"O", "P", "T", "I", "O", "N", "S">>,
     <<"C", "O", "N", "N", "E", "C", "T">>,
     <<"T", "R", "A", "C", "E">>,
     <<"p", "o", "s", "t">>,
     <<"P", "u", "t">>,
     <<"t", "R", "a", "C", "e">>,
     <<"G", "E", "T", "S">>,
     <<"e", ".", "c">>}

\* URL texts with template tokens and with a query of their own
ItemURLs ==
    {<<"e", "x", "a", "m", "p", "l", "e", ".", "c", "o", "m", "/", "j", "o", "b", "s", "/", "<", "i", "d", ">">>,
     <<"e", "x", "a", "m", "p", "l", "e", ".", "c", "o", "m">>,
     <<"e", "?", "s", "e", "a", "r", "c", "h", "=", "x", "&", "b", "=", "1">>,
     <<"e", "/", "<", "i", "d", ">", "/", "<", "o", ">">>,
     <<"e", "/", "<", "<", "a", ">", "b", ">">>,
     <<"e", "/", "<", "a", ">">>}

\* request items: template fills, query items, and tokens of neither or both forms
Items ==
    {<<"i", "d", "=", "=", "4", "2">>,
     <<"i", "d", "=", "=", "<", "o", ">">>,
     <<"o", "=", "=", "v">>,
     <<"s", "e", "a", "r", "c", "h", "=", "h", "t", "t", "p", "i", "e">>,
     <<"s", "e", "a", "r", "c", "h", "=", "c", "l", "i">>,
     <<"a", "=", "b", "=", "=", "c">>,
     <<"a", "=", "=", "b", "=", "c">>,
     <<"a">>,
     <<"=", "x">>,
     <<"a", "=">>,
     <<"q", "=", "a", "=", "b">>,
     <<"i", "d", "=", "=", "a", "=", "=", "b">>}

\* positional arguments: a first token alone or before a URL, and a URL with
\* at most MaxItems request items after it
RequestArgs ==
    {<<m>> : m \in FirstTokens}
    \cup {<<m, <<"e", ".", "c">>>> \o its : m \in FirstTokens,
                                          its \in {<<>>, <<<<"a", "=", "1">>>>}}
    \cup {<<u>> \o its : u \in ItemURLs,
                          its \in UNION {[1..n -> Items] : n \in 0..MaxItems}}

InitURL ==
    /\ pc = "Run"
    /\ args \in {<<u>> : u \in URLTexts} \cup {<<>>} \cup RequestArgs
    /\ flags = [accessKeyID |-> <<>>, accessKeySecret |-> <<>>, noAuth |-> FALSE]
    /\ params = <<>>
    /\ pa = NoPositionalArgument
    /\ fill = <<>>
    /\ config = NoConfigFile
    /\ sent = <<>>
    /\ req = NoRequest
    /\ signer = NoSigner
    /\ hist = <<>>
    /\ date = <<>>
    /\ msg = <<>>

NextURL == ParseArgs \/ FillHost \/ FillPort \/ FillScheme \/ FillSubstitute \/ BuildURL

SpecURL == InitURL /\ [][NextURL]_vars

----------------------------------------------------------------------------
(* RootCmd.Run: parsePositionalArguments, standard input, initConfig,
   Client.doRequest *)

applicationJSON == <<"a", "p", "p", "l", "i", "c", "a", "t", "i", "o", "n", "/", "j", "s", "o", "n">>

\* default headers with a custom header among them
defaultHeadersWithCustom ==
    (ContentTypeKey :> applicationJSON)
    @@ (<<"U", "s", "e", "r", "-", "A", "g", "e", "n", "t">>
            :> <<"g", "d", "h", "t", "t", "p", "/", "0", ".", "3", ".", "1">>)
    @@ (<<"A", "c", "c", "e", "p", "t">> :> applicationJSON)
    @@ (<<"A", "c", "c", "e", "p", "t", "-", "E", "n", "c", "o", "d", "i", "n", "g">>
            :> applicationJSON)
    @@ (<<"C", "o", "n", "n", "e", "c", "t", "i", "o", "n">>
            :> <<"k", "e", "e", "p", "-", "a", "l", "i", "v", "e">>)
    @@ (XGdA :> <<"1">>)
defaultHeaders ==
    (ContentTypeKey :> applicationJSON)
    @@ (<<"U", "s", "e", "r", "-", "A", "g", "e", "n", "t">>
            :> <<"g", "d", "h", "t", "t", "p", "/", "0", ".", "3", ".", "1">>)
    @@ (<<"A", "c", "c", "e", "p", "t">> :> applicationJSON)
    @@ (<<"A", "c", "c", "e", "p", "t", "-", "E", "n", "c", "o", "d", "i", "n", "g">>
            :> applicationJSON)
    @@ (<<"C", "o", "n", "n", "e", "c", "t", "i", "o", "n">>
            :> <<"k", "e", "e", "p", "-", "a", "l", "i", "v", "e">>)

\* lines 89-96: the body is read when standard input is no terminal
Bodies == {<<>>, <<"{", "}">>}
ReadStdin ==
    \E body \in Bodies :
        /\ pc = "parsed"
        /\ params' = body
        /\ pc' = "initConfig"
        /\ UNCHANGED <<args, flags, pa, fill, config, sent>>
        /\ UNCHANGED signVars

\* an initConfig that keeps credentials given by the flags
initConfigFlagsFirst(cfg, fl, u) ==
    IF cfg.state = "missing" THEN [exit |-> FALSE, flags |-> fl]
    ELSE IF cfg.state = "malformed" THEN [exit |-> TRUE, flags |-> fl]
    ELSE IF u.Host \in DOMAIN cfg.Auths /\ fl.accessKeyID = <<>>
    THEN [exit |-> FALSE,
          flags |-> [fl EXCEPT !.accessKeyID = cfg.Auths[u.Host].AccessKeyID,
                               !.accessKeySecret = cfg.Auths[u.Host].AccessKeySecret]]
    ELSE [exit |-> FALSE, flags |-> fl]
\* initConfig: [exit, flags]
initConfig(cfg, fl, u) ==
    IF cfg.state = "missing" THEN [exit |-> FALSE, flags |-> fl]
    ELSE IF cfg.state = "malformed" THEN [exit |-> TRUE, flags |-> fl]
    ELSE IF u.Host \in DOMAIN cfg.Auths
    THEN [exit |-> FALSE,
          flags |-> [fl EXCEPT !.accessKeyID = cfg.Auths[u.Host].AccessKeyID,
                               !.accessKeySecret = cfg.Auths[u.Host].AccessKeySecret]]
    ELSE [exit |-> FALSE, flags |-> fl]

initConfigReturns(r) ==
    /\ flags' = r.flags
    /\ pc' = IF r.exit THEN "exit" ELSE "doRequest"
    /\ UNCHANGED <<args, params, pa, fill, config, sent>>
    /\ UNCHANGED signVars

InitConfig == pc = "initConfig" /\ initConfigReturns(initConfig(config, flags, pa.uri))

\* doRequest, lines 195-205
requestBody(method, p) ==
    IF Len(p) > 0 /\ method \notin {MethodGet, MethodHead, MethodOptions} THEN p ELSE <<>>

newRequestReturns(r) ==
    /\ IF r.ok
       THEN /\ req' = NewRequest(pa.httpMethod,
                                 \* http.removeEmptyPort: a host ending in ':' loses it
                                 [r.u EXCEPT !.Host =
                                     IF Len(@) > 0 /\ @[Len(@)] = ":"
                                     THEN SubSeq(@, 1, Len(@) - 1) ELSE @],
                                 requestBody(pa.httpMethod, params))
            /\ pc' = "setHeaders"
       ELSE /\ req' = req
            /\ pc' = "exit"
    /\ UNCHANGED <<signer, hist, date, msg>>
    /\ UNCHANGED cliVars

\* doRequest, lines 206-209, after NewClient: http.NewRequest parses uri.String()
DoNewRequest == pc = "doRequest" /\ newRequestReturns(ParseURL(URLString(pa.uri)))

RECURSIVE setAll(_, _, _)
setAll(h, m, keys) ==
    IF keys = {} THEN h
    ELSE LET key == CHOOSE k \in keys : TRUE
         IN setAll(HeaderSet(h, key, m[key]), m, keys \ {key})

\* doRequest, lines 210-212
DoSetDefaultHeaders ==
    /\ pc = "setHeaders"
    /\ req' = [req EXCEPT !.Header = setAll(@, defaultHeaders, DOMAIN defaultHeaders)]
    /\ pc' = "sign"
    /\ UNCHANGED <<signer, hist, date, msg>>
    /\ UNCHANGED cliVars

\* a doRequest with the test of noAuth inverted
signIfNoAuth(noAuth, sg, r, d) ==
    IF noAuth THEN SignReq(sg, r, d)
    ELSE [panic |-> FALSE, req |-> r, msg |-> <<>>, date |-> <<>>]
\* a doRequest that sets Content-MD5 from the body before it signs, the
\* digest kept symbolic as the body it is taken of
signWithBodyDigest(noAuth, sg, r, d) ==
    IF ~noAuth
    THEN SignReq(sg, IF Len(r.Body) > 0
                     THEN [r EXCEPT !.Header = HeaderSet(@, ContentMD5Key, r.Body)]
                     ELSE r, d)
    ELSE [panic |-> FALSE, req |-> r, msg |-> <<>>, date |-> <<>>]
\* a doRequest that signs whatever noAuth says
signAlways(noAuth, sg, r, d) == SignReq(sg, r, d)
\* doRequest, lines 213-220
signUnlessNoAuth(noAuth, sg, r, d) ==
    IF ~noAuth THEN SignReq(sg, r, d)
    ELSE [panic |-> FALSE, req |-> r, msg |-> <<>>, date |-> <<>>]

clientSignature ==
    [Method |-> HMACSHA1V1, AccessKeyID |-> flags.accessKeyID,
     AccessKeySecret |-> flags.accessKeySecret]

doSignReturns(r) ==
    /\ signer' = IF flags.noAuth THEN signer ELSE clientSignature
    /\ req' = r.req
    /\ msg' = r.msg
    /\ date' = r.date
    /\ pc' = IF r.panic THEN "panic" ELSE "before"
    /\ UNCHANGED hist
    /\ UNCHANGED cliVars

DoSign ==
    \E d \in Now :
        pc = "sign" /\ doSignReturns(signUnlessNoAuth(flags.noAuth, clientSignature, req, d))

\* doRequest, line 222: DumpConfig.before prints and changes nothing
HookBefore ==
    /\ pc = "before"
    /\ pc' = "do"
    /\ UNCHANGED signVars
    /\ UNCHANGED cliVars

\* doRequest, lines 224-226: the request goes out; the call fails or answers
ClientDo ==
    \E ok \in BOOLEAN :
        /\ pc = "do"
        /\ sent' = Append(sent, req)
        /\ pc' = IF ok THEN "after" ELSE "exit"
        /\ UNCHANGED <<args, flags, params, pa, fill, config>>
        /\ UNCHANGED signVars

\* doRequest, line 228, and the end of Run
HookAfter ==
    /\ pc = "after"
    /\ pc' = "done"
    /\ UNCHANGED signVars
    /\ UNCHANGED cliVars

CliArgs ==
    {<<>>,
     << <<":", "/", "f">> >>,
     << <<"G", "E", "T">>, <<":", "/", "f">> >>,
     << <<"p", "o", "s", "t">>, <<"h", "/", "f">>, <<"a", "=", "1">> >>,
     << <<"h", "/", "f", "?", "b", "=", "1">>, <<"a", "=", "1">> >>,
     << <<"h", ":", "3", "/", "f">> >>,
     << <<"h", ":", "f">> >>}

CliFlags ==
    {[accessKeyID |-> k[1], accessKeySecret |-> k[2], noAuth |-> n] :
        k \in {<<AKID, SECRET>>, << <<>>, <<>> >>}, n \in BOOLEAN}

\* config files: none, one that does not decode, one with entries for
\* localhost and for a host with a port, one with an entry for that host
\* without the port
CliConfigs ==
    {NoConfigFile, BadConfigFile,
     ConfigFile((defaultHost :> [AccessKeyID |-> <<"C", "K">>, AccessKeySecret |-> <<"C", "S">>])
                @@ (<<"h", ":", "3">> :> [AccessKeyID |-> <<"P", "K">>, AccessKeySecret |-> <<"P", "S">>])),
     ConfigFile(<<"h">> :> [AccessKeyID |-> <<"H", "K">>, AccessKeySecret |-> <<"H", "S">>])}

Init ==
    /\ pc = "Run"
    /\ args \in CliArgs
    /\ flags \in CliFlags
    /\ config \in CliConfigs
    /\ params = <<>>
    /\ pa = NoPositionalArgument
    /\ fill = <<>>
    /\ sent = <<>>
    /\ req = NoRequest
    /\ signer = NoSigner
    /\ hist = <<>>
    /\ date = <<>>
    /\ msg = <<>>

Next ==
    \/ ParseArgs \/ FillHost \/ FillPort \/ FillScheme \/ FillSubstitute \/ BuildURL
    \/ ReadStdin \/ InitConfig
    \/ DoNewRequest \/ DoSetDefaultHeaders \/ DoSign \/ HookBefore \/ ClientDo \/ HookAfter

Spec == Init /\ [][Next]_vars

----------------------------------------------------------------------------
(* Properties of the signer, under SpecSign *)

RECURSIVE applyHeaderOps(_, _)
applyHeaderOps(h, ops) ==
    IF Len(ops) = 0 THEN h ELSE applyHeaderOps(applyHeaderOp(h, ops[1]), Tail(ops))

\* the header set SignReq was given: the caller's operations, in order
PreHeader == applyHeaderOps(EmptyMap, hist)
PreRequest == [req EXCEPT !.Header = PreHeader]

SignReqCalled == pc \in {"libSigned", "libPanic"}

HasCustomHeader(h) ==
    \E k \in DOMAIN h : Len(k) >= 5 /\ ToLower(SubSeq(k, 1, 5)) = <<"x", "-", "g", "d", "-">>

FirstValueOrEmpty(h, k) == IF k \in DOMAIN h THEN h[k][1] ELSE <<>>
ContentMd5Canonical == <<"C", "o", "n", "t", "e", "n", "t", "-", "M", "d", "5">>

Perms(q) ==
    {[i \in 1..Len(q) |-> q[f[i]]] :
        f \in {g \in [1..Len(q) -> 1..Len(q)] : \A i, j \in 1..Len(q) : g[i] = g[j] => i = j}}

\* C1: for a request with no header whose name starts, case-insensitively,
\* with x-gd-, the string SignReq signs is exactly the five segments method,
\* Content-MD5 value (empty if absent), Content-Type value (empty if absent),
\* timestamp, resource, joined by single newlines; no empty line stands in for
\* the missing custom-header block.
C1_FiveSegments ==
    (SignReqCalled /\ ~HasCustomHeader(PreHeader)) =>
        /\ pc = "libSigned"
        /\ msg = req.Method \o <<"\n">>
                 \o FirstValueOrEmpty(PreHeader, ContentMd5Canonical) \o <<"\n">>
                 \o FirstValueOrEmpty(PreHeader, ContentTypeKey) \o <<"\n">>
                 \o date \o <<"\n">>
                 \o convertURLToString(req.URL)

C1_Witness ==
    /\ pc = "libSigned"
    /\ ~HasCustomHeader(PreHeader)
    /\ ContentTypeKey \in DOMAIN PreHeader
    /\ ContentMd5Canonical \notin DOMAIN PreHeader
    /\ Len(req.URL.RawQuery) > 0

\* the custom-header block the claims describe: key:value pairs of the custom
\* headers in ascending key order, the values of a header joined with ','
CustomKeys(h) == {k \in DOMAIN h : HasCustomHeader([x \in {k} |-> h[x]])}
CustomBlock(h) ==
    LET keys == SortStrings(CustomKeys(h))
    IN Join([i \in 1..Len(keys) |-> keys[i] \o <<":">> \o Join(h[keys[i]], <<",">>)], <<"\n">>)

\* C2: for a request with at least one x-gd- header SignReq produces a
\* canonical string of exactly six segments: method, Content-MD5,
\* Content-Type, timestamp, custom-header block, resource.
C2_SixSegments ==
    (SignReqCalled /\ HasCustomHeader(PreHeader)) =>
        /\ pc = "libSigned"
        /\ msg = Join(<<req.Method,
                        FirstValueOrEmpty(PreHeader, ContentMd5Canonical),
                        FirstValueOrEmpty(PreHeader, ContentTypeKey),
                        date,
                        CustomBlock(PreHeader),
                        convertURLToString(req.URL)>>, <<"\n">>)

\* C3: two requests that differ only in the sequence of the same query
\* parameters (two values of one key swapped included) get the same resource
\* string from convertURLToString, hence the same signature.
C3_QueryOrderIndependent ==
    pc = "libSigned" =>
        \A q \in Perms(Split(PreRequest.URL.RawQuery, <<"&">>)) :
            LET other == [PreRequest EXCEPT !.URL.RawQuery = Join(q, <<"&">>)]
                r == SignReq(signer, other, date)
            IN /\ convertURLToString(other.URL) = convertURLToString(req.URL)
               /\ r.msg = msg
               /\ r.req.Header[AuthorizationKey] = req.Header[AuthorizationKey]

\* C4: two requests carrying the same x-gd- headers inserted in different
\* orders yield an identical canonical string from SignReq.
C4_HeaderOrderIndependent ==
    (SignReqCalled /\ HasCustomHeader(PreHeader)) =>
        /\ pc = "libSigned"
        /\ \A ops \in Perms(hist) :
               LET r == SignReq(signer, [req EXCEPT !.Header = applyHeaderOps(EmptyMap, ops)], date)
               IN ~r.panic /\ r.msg = msg

\* C5: SignReq is total: for every well-formed request, header sets with
\* x-gd- headers included, it returns normally and never panics.
C5_SignReqTotal == pc # "libPanic"

\* C6: after SignReq returns, Date holds exactly the timestamp placed in the
\* signed string, Authorization is exactly 'GeneDock <AccessKeyID>:<base64 of
\* the HMAC, keyed with AccessKeySecret, of that string>', and earlier Date
\* and Authorization values are replaced, not appended to; no other header
\* changes.
C6_DateAndAuthorization ==
    pc = "libSigned" =>
        /\ Split(msg, <<"\n">>)[4] = date
        /\ req.Header =
             [k \in DOMAIN PreHeader \cup {DateKey, AuthorizationKey} |->
                IF k = DateKey THEN <<date>>
                ELSE IF k = AuthorizationKey
                THEN << <<"G", "e", "n", "e", "D", "o", "c", "k", " ">> \o signer.AccessKeyID
                        \o <<":">> \o <<ToString(<<"hmac-sha1", signer.AccessKeySecret, msg>>)>> >>
                ELSE PreHeader[k]]

C6_Witness ==
    /\ pc = "libSigned"
    /\ DateKey \in DOMAIN PreHeader
    /\ AuthorizationKey \in DOMAIN PreHeader

\* the headers that may feed the signature: the custom ones and the two
\* content headers
FeedsSignature(k) ==
    \/ (Len(k) >= 5 /\ ToLower(SubSeq(k, 1, 5)) = <<"x", "-", "g", "d", "-">>)
    \/ k \in {CanonicalMIMEHeaderKey(ContentTypeKey), CanonicalMIMEHeaderKey(ContentMD5Key)}
SignatureHeaders(h) == [k \in {x \in DOMAIN h : FeedsSignature(x)} |-> h[k]]

\* signing r at the time of this run's signature ends as this run's did
SameOutcome(o) == IF pc = "libSigned" THEN ~o.panic /\ o.msg = msg ELSE o.panic
SameCanonicalString(r) ==
    SameOutcome(SignReq(signer, r, IF pc = "libSigned" THEN date ELSE CHOOSE d \in Now : TRUE))

\* C19: only the x-gd- headers, Content-Type and Content-MD5 feed the
\* signature: the request signed and the same request without its other
\* headers get the same canonical string at the same timestamp, so any two
\* requests that differ only in other headers do.
C19_OtherHeadersDoNotFeed ==
    SignReqCalled =>
        SameCanonicalString([PreRequest EXCEPT !.Header = SignatureHeaders(PreHeader)])

C19_Witness ==
    /\ pc = "libSigned"
    /\ msg # <<>>
    /\ CanonicalMIMEHeaderKey(XTrace) \in DOMAIN PreHeader
    /\ CanonicalMIMEHeaderKey(ContentTypeKey) \in DOMAIN PreHeader

----------------------------------------------------------------------------
(* Properties of the URL construction, under SpecURL *)

BuildURLDone == pc \in {"parsed", "exit"} /\ Len(args) >= 1
NoItems == Len(args) = 1

HttpText == <<"h", "t", "t", "p">>
LocalhostText == <<"l", "o", "c", "a", "l", "h", "o", "s", "t">>

\* the number of digits that follow the first character of s
RECURSIVE DigitRun(_, _)
DigitRun(s, i) == IF i <= Len(s) /\ IsDigit(s[i]) THEN 1 + DigitRun(s, i + 1) ELSE 0

\* ':' then one or more digits, then nothing or a path
IsPortForm(s) ==
    /\ Len(s) >= 2 /\ s[1] = ":" /\ DigitRun(s, 2) >= 1
    /\ LET n == DigitRun(s, 2)
       IN (n + 1 = Len(s) \/ s[n + 2] = "/")
          /\ \A i \in (n + 2)..Len(s) : s[i] \notin {"<", ">", "?", "#"}

\* ':/' then path text: no template token, query or fragment mark
IsColonPathForm(s) ==
    /\ Len(s) >= 2 /\ s[1] = ":" /\ s[2] = "/"
    /\ \A i \in 1..Len(s) : s[i] \notin {"<", ">", "?", "#"}

\* C8: for an input ':' digits, then an optional path, and no request items,
\* buildURL yields scheme http, host name localhost, the digits as the port
\* and the given path (':3000' becomes http://localhost:3000).
C8_PortShorthand ==
    (BuildURLDone /\ NoItems /\ IsPortForm(args[1])) =>
        LET n == DigitRun(args[1], 2)
        IN /\ pc = "parsed"
           /\ pa.uri.Scheme = HttpText
           /\ pa.uri.Host = LocalhostText \o SubSeq(args[1], 1, n + 1)
           /\ pa.uri.Path = SubSeq(args[1], n + 2, Len(args[1]))

\* C9: for an input ':/<path>' and no request items buildURL yields
\* http://localhost/<path>: scheme http, host localhost with no port, and
\* the given path.
C9_ColonPathShorthand ==
    (BuildURLDone /\ NoItems /\ IsColonPathForm(args[1])) =>
        /\ pc = "parsed"
        /\ pa.uri = [NoURL EXCEPT !.Scheme = HttpText, !.Host = LocalhostText,
                                  !.Path = Tail(args[1])]
        /\ URLString(pa.uri) = <<"h", "t", "t", "p", ":", "/", "/">> \o LocalhostText
                               \o Tail(args[1])

C9_Witness ==
    /\ pc = "parsed" /\ NoItems /\ IsColonPathForm(args[1])
    /\ Len(args[1]) > 3
    /\ pa.uri.Host = LocalhostText

BeginsWithScheme(s) ==
    \/ (Len(s) >= 7 /\ SubSeq(s, 1, 7) = <<"h", "t", "t", "p", ":", "/", "/">>)
    \/ (Len(s) >= 8 /\ SubSeq(s, 1, 8) = <<"h", "t", "t", "p", "s", ":", "/", "/">>)

\* C10: the scheme step of fillURL leaves a string that, after the shorthand
\* host expansion, begins with 'http://' or 'https://' unchanged and prepends
\* 'http://' to every other string; the string handed to the template
\* substitution always begins with 'http://' or 'https://'.
C10_SchemeDefault ==
    Len(fill) >= 4 =>
        /\ BeginsWithScheme(fill[3]) => fill[4] = fill[3]
        /\ ~BeginsWithScheme(fill[3]) =>
               fill[4] = <<"h", "t", "t", "p", ":", "/", "/">> \o fill[3]
        /\ BeginsWithScheme(fill[4])

C10_Witness ==
    /\ Len(fill) >= 4
    /\ Len(fill[3]) > 8
    /\ SubSeq(fill[3], 1, 8) = <<"h", "t", "t", "p", "s", ":", "/", "/">>
    /\ fill[4] = fill[3]

\* the key and the value of a key==value item, and the test for that form:
\* a non-empty key with no '=' in it, then '=='
FillKey(item) == Cut(item, <<"=", "=">>)[1]
FillValue(item) == Cut(Cut(item, <<"=", "=">>)[2], <<"=", "=">>)[1]
IsFillItem(item) ==
    /\ Cut(item, <<"=", "=">>)[3]
    /\ Len(FillKey(item)) > 0
    /\ \A i \in 1..Len(FillKey(item)) : FillKey(item)[i] # "="

\* the value filled in for name: that of the last item with this key, the
\* empty string when there is none
FilledFor(name, items) ==
    LET hits == {k \in 1..Len(items) : IsFillItem(items[k]) /\ FillKey(items[k]) = name}
    IN IF hits = {} THEN <<>>
       ELSE FillValue(items[CHOOSE k \in hits : \A j \in hits : j <= k])

\* s with every token replaced: up to the first '>', a token is what runs
\* from the last '<' before it, when at least one character lies between
RECURSIVE TokensFilled(_, _)
TokensFilledAt(s, items, j, i) ==
    IF j = 0 THEN s
    ELSE IF i = 0 \/ i + 1 = j
    THEN SubSeq(s, 1, j) \o TokensFilled(SubSeq(s, j + 1, Len(s)), items)
    ELSE SubSeq(s, 1, i - 1) \o FilledFor(SubSeq(s, i + 1, j - 1), items)
         \o TokensFilled(SubSeq(s, j + 1, Len(s)), items)
TokensFilled(s, items) ==
    TokensFilledAt(s, items, Index(s, <<">">>),
                   LastIndex(SubSeq(s, 1, Index(s, <<">">>)), "<"))

HasToken(s) == \E i \in 1..Len(s) : tokenAt(s, i) > 0
NoAngle(s) == \A i \in 1..Len(s) : s[i] \notin {"<", ">"}
FillURLDone == Len(fill) >= 5

JobsTemplate == <<"e", "x", "a", "m", "p", "l", "e", ".", "c", "o", "m", "/", "j", "o", "b", "s", "/", "<", "i", "d", ">">>
JobsResult == <<"h", "t", "t", "p", ":", "/", "/", "e", "x", "a", "m", "p", "l", "e", ".", "c", "o", "m", "/", "j", "o", "b", "s", "/", "4", "2">>

\* C11 as stated: every token is replaced by the value of the matching
\* key==value item and by the empty string when there is none,
\* 'example.com/jobs/<id>' with 'id==42' gives http://example.com/jobs/42,
\* and no token with a non-empty name remains in the result of fillURL.
C11_NoTokenRemains ==
    FillURLDone =>
        /\ fill[5] = TokensFilled(fill[4], pa.requestItems)
        /\ ~HasToken(fill[5])

\* C11 amended: every token of the URL string is replaced by the value kept
\* for its name, the text of the last matching key==value item from its
\* first '==' to the next '==' or the end, and by the empty string when
\* there is no such item; the example holds; no token remains in the result
\* of fillURL when the URL string has no '<' or '>' outside its tokens and
\* no value filled in contains one.
C11_TokensReplaced ==
    FillURLDone =>
        /\ fill[5] = TokensFilled(fill[4], pa.requestItems)
        /\ (args = <<JobsTemplate, <<"i", "d", "=", "=", "4", "2">>>> /\ pc = "parsed") =>
               URLString(pa.uri) = JobsResult
        /\ (/\ NoAngle(TokensFilled(fill[4], <<>>))
            /\ \A k \in 1..Len(pa.requestItems) :
                   IsFillItem(pa.requestItems[k]) => NoAngle(FillValue(pa.requestItems[k])))
           => ~HasToken(fill[5])

C11_Witness ==
    /\ pc = "parsed"
    /\ args = <<<<"e", "/", "<", "i", "d", ">", "/", "<", "o", ">">>, <<"i", "d", "=", "=", "4", "2">>>>
    /\ fill[5] = <<"h", "t", "t", "p", ":", "/", "/", "e", "/", "4", "2", "/">>

\* the key and the value of a key=value item, and the test for that form: a
\* non-empty key, then one '=' that no second '=' follows at once
QueryKey(item) == Cut(item, <<"=">>)[1]
QueryValue(item) == Cut(item, <<"=">>)[2]
IsQueryItem(item) ==
    /\ Cut(item, <<"=">>)[3]
    /\ Len(QueryKey(item)) > 0
    /\ ~HasPrefix(QueryValue(item), <<"=">>)

\* the values of the key=value items with this key, in item order
RECURSIVE ItemValues(_, _)
ItemValues(key, items) ==
    IF Len(items) = 0 THEN <<>>
    ELSE (IF IsQueryItem(items[1]) /\ QueryKey(items[1]) = key
          THEN <<QueryValue(items[1])>> ELSE <<>>)
         \o ItemValues(key, Tail(items))

ItemKeys(items) == {QueryKey(items[k]) : k \in {j \in 1..Len(items) : IsQueryItem(items[j])}}

\* after holds, per key, the values of before and then those of the items
QueryMerged(before, after, items) ==
    /\ DOMAIN after = DOMAIN before \cup ItemKeys(items)
    /\ \A key \in DOMAIN after :
           after[key] = (IF key \in DOMAIN before THEN before[key] ELSE <<>>)
                        \o ItemValues(key, items)

\* C12: the final query multi-map of buildURL holds, for each key, the values
\* already in the query of the URL, in their order, followed by the value of
\* every key=value request item with that key, in item order; a repeated key
\* accumulates its values ('search=httpie', 'search=cli' leaves both).
C12_QueryMerge ==
    pc = "parsed" =>
        QueryMerged(URLQuery(ParseURL(fill[5]).u.RawQuery), URLQuery(pa.uri.RawQuery),
                    pa.requestItems)

\* parsePositionalArguments has returned or is inside buildURL
ParseArgsDone == Len(args) >= 1 /\ Len(fill) >= 1

IsMethodName(token) ==
    ToUpper(token) \in {MethodGet, MethodHead, MethodPost, MethodPut, MethodPatch,
                        MethodDelete, MethodOptions, MethodConnect, MethodTrace}

\* C13 as stated: for every non-empty token list, one token alone included,
\* the first token is taken as the method (upper-cased) if and only if it
\* equals one of the nine method names, letter case aside.
C13_MethodResolution ==
    ParseArgsDone => (pa.httpMethod = ToUpper(args[1]) <=> IsMethodName(args[1]))

\* C13 amended: for every list of two or more tokens the first token is
\* taken as the method (upper-cased), and the second as the URL, if and only
\* if it equals one of the nine method names, letter case aside; a single
\* token is always the URL, and the method is then GET.
C13_MethodResolutionTwoTokens ==
    ParseArgsDone =>
        /\ (Len(args) >= 2 /\ IsMethodName(args[1])) =>
               pa.httpMethod = ToUpper(args[1]) /\ pa.uriStr = args[2]
        /\ (Len(args) >= 2 /\ ~IsMethodName(args[1])) =>
               pa.httpMethod = MethodGet /\ pa.uriStr = args[1]
        /\ Len(args) = 1 => pa.httpMethod = MethodGet /\ pa.uriStr = args[1]

C13_Witness ==
    /\ pc = "parsed"
    /\ args = <<<<"t", "R", "a", "C", "e">>, <<"e", ".", "c">>>>
    /\ pa.httpMethod = MethodTrace
    /\ pa.uriStr = <<"e", ".", "c">>

\* the tokens of a that come after its first k
Suffix(a, k) == SubSeq(a, k + 1, Len(a))

\* C14 as stated, for lists with tokens after the first: when the first
\* token is no method name the method is GET, the first token is the URL,
\* and the request items are that first token together with all the tokens
\* after it.
C14_FirstTokenReincluded ==
    (ParseArgsDone /\ Len(args) >= 2 /\ ~IsMethodName(args[1])) =>
        /\ pa.httpMethod = MethodGet
        /\ pa.uriStr = args[1]
        /\ \E k \in 1..Len(pa.requestItems) : pa.requestItems[k] = args[1]
        /\ Len(pa.requestItems) >= Len(args) - 1
        /\ Suffix(pa.requestItems, Len(pa.requestItems) - (Len(args) - 1)) = Suffix(args, 1)

\* C14 amended: when the first of two or more tokens is no method name the
\* method is GET, the first token is the URL, and the request items are
\* exactly the tokens after it, in order; the first token is not among them
\* unless it is repeated there.
C14_ItemsAfterURL ==
    (ParseArgsDone /\ Len(args) >= 2 /\ ~IsMethodName(args[1])) =>
        /\ pa.httpMethod = MethodGet
        /\ pa.uriStr = args[1]
        /\ pa.requestItems = Suffix(args, 1)

C14_Witness ==
    /\ pc = "parsed"
    /\ args = <<<<"e", "x", "a", "m", "p", "l", "e", ".", "c", "o", "m", "/", "j", "o", "b", "s", "/", "<", "i", "d", ">">>, <<"i", "d", "=", "=", "4", "2">>, <<"s", "e", "a", "r", "c", "h", "=", "c", "l", "i">>>>
    /\ pa.requestItems = <<<<"i", "d", "=", "=", "4", "2">>, <<"s", "e", "a", "r", "c", "h", "=", "c", "l", "i">>>>
    /\ URLString(pa.uri) = <<"h", "t", "t", "p", ":", "/", "/", "e", "x", "a", "m", "p", "l", "e", ".", "c", "o", "m", "/", "j", "o", "b", "s", "/", "4", "2", "?", "s", "e", "a", "r", "c", "h", "=", "c", "l", "i">>

\* normalization of s with no request items gives s again
Renormalized(s) == buildURL(s, <<>>).ok /\ URLString(buildURL(s, <<>>).u) = s

\* C15 as stated: whenever buildURL succeeds with a result u, whose text has
\* a scheme and no template token, buildURL of u.String() with no request
\* items succeeds and yields a URL with the same text.
C15_Idempotent ==
    (pc = "parsed" /\ ~HasToken(URLString(pa.uri))) => Renormalized(URLString(pa.uri))

\* C15 amended: the same, for every result u that has a host or a path.
C15_IdempotentWithHostOrPath ==
    (/\ pc = "parsed"
     /\ ~HasToken(URLString(pa.uri))
     /\ (Len(pa.uri.Host) > 0 \/ Len(pa.uri.Path) > 0))
    => Renormalized(URLString(pa.uri))

C15_Witness ==
    /\ pc = "parsed"
    /\ args = <<<<"e", "/", "<", "<", "a", ">", "b", ">">>, <<"s", "e", "a", "r", "c", "h", "=", "c", "l", "i">>>>
    /\ URLString(pa.uri) = <<"h", "t", "t", "p", ":", "/", "/", "e", "/", "%", "3", "C", "b", "%", "3", "E", "?", "s", "e", "a", "r", "c", "h", "=", "c", "l", "i">>
    /\ Renormalized(URLString(pa.uri))

\* a token with no '=' or with an empty key
Malformed(item) == Index(item, <<"=">>) <= 1
\* a token with '==' and also an '=' that stands alone
BothForms(item) ==
    /\ Index(item, <<"=", "=">>) > 0
    /\ \E i \in 1..Len(item) :
           /\ item[i] = "="
           /\ (i = 1 \/ item[i - 1] # "=")
           /\ (i = Len(item) \/ item[i + 1] # "=")
WellFormed(item) == ~Malformed(item)
Unambiguous(item) == ~Malformed(item) /\ ~BothForms(item)

\* the outcome of buildURL is what the items kept alone give
SameAsWith(kept) ==
    /\ pc = "parsed" => buildURL(pa.uriStr, kept) = [ok |-> TRUE, u |-> pa.uri]
    /\ pc = "exit" => ~buildURL(pa.uriStr, kept).ok

\* C17 as stated: a token with both the '=' and the '==' form, with no '=' or
\* with an empty key adds no query parameter, fills no template token and
\* raises no error: buildURL gives what it gives without these tokens.
C17_AmbiguousIgnored ==
    BuildURLDone => SameAsWith(SelectSeq(pa.requestItems, Unambiguous))

\* C17 amended: a token with no '=' or with an empty key adds no query
\* parameter, fills no template token and raises no error; a token with
\* both forms is not ignored but taken by its first separator: 'a=b==c' adds
\* a query parameter a and 'a==b=c' fills the token <a>.
C17_MalformedIgnored ==
    BuildURLDone =>
        /\ SameAsWith(SelectSeq(pa.requestItems, WellFormed))
        /\ (pc = "parsed" /\ pa.requestItems = <<<<"a", "=", "b", "=", "=", "c">>>>) =>
               <<"a">> \in DOMAIN URLQuery(pa.uri.RawQuery)
        /\ (pc = "parsed" /\ pa.uriStr = <<"e", "/", "<", "a", ">">> /\ pa.requestItems = <<<<"a", "=", "=", "b", "=", "c">>>>) =>
               pa.uri.Path = <<"/", "b", "=", "c">>

C17_Witness ==
    /\ pc = "parsed"
    /\ pa.uriStr = <<"e", "/", "<", "a", ">">>
    /\ pa.requestItems = <<<<"=", "x">>, <<"a", "=", "=", "b", "=", "c">>>>
    /\ URLString(pa.uri) = <<"h", "t", "t", "p", ":", "/", "/", "e", "/", "b", "=", "c">>

\* the names of the tokens of s
TokenNames(s) ==
    {SubSeq(s, i + 1, i + tokenAt(s, i) - 2) : i \in {j \in 1..Len(s) : tokenAt(s, j) > 0}}
\* v is a piece of s
Contains(s, v) == \E i \in 0..(Len(s) - Len(v)) : SubSeq(s, i + 1, i + Len(v)) = v

\* C20: template substitution is a single pass: when the value filled in for
\* a token itself contains text of the form <other>, that value stands
\* verbatim in the result of fillURL, also when an item other==v exists.
C20_SinglePass ==
    FillURLDone =>
        /\ \A name \in TokenNames(fill[4]) :
               HasToken(FilledFor(name, pa.requestItems)) =>
                   Contains(fill[5], FilledFor(name, pa.requestItems))
        /\ (pa.uriStr = <<"e", "/", "<", "i", "d", ">", "/", "<", "o", ">">> /\ pa.requestItems = <<<<"i", "d", "=", "=", "<", "o", ">">>, <<"o", "=", "=", "v">>>>) => fill[5] = <<"h", "t", "t", "p", ":", "/", "/", "e", "/", "<", "o", ">", "/", "v">>

C20_Witness ==
    /\ pc = "parsed"
    /\ pa.uriStr = <<"e", "/", "<", "i", "d", ">", "/", "<", "o", ">">>
    /\ pa.requestItems = <<<<"i", "d", "=", "=", "<", "o", ">">>, <<"o", "=", "=", "v">>>>
    /\ fill[5] = <<"h", "t", "t", "p", ":", "/", "/", "e", "/", "<", "o", ">", "/", "v">>
    /\ pa.uri.Path = <<"/", "<", "o", ">", "/", "v">>

\* the whole text of a key==value item after its first '=='
FillRest(item) == Cut(item, <<"=", "=">>)[2]
\* the last key==value item with this key
LastFillItem(name, items) ==
    items[CHOOSE k \in 1..Len(items) :
              /\ IsFillItem(items[k]) /\ FillKey(items[k]) = name
              /\ \A j \in (k + 1)..Len(items) :
                     ~(IsFillItem(items[j]) /\ FillKey(items[j]) = name)]
HasFillItem(name, items) ==
    \E k \in 1..Len(items) : IsFillItem(items[k]) /\ FillKey(items[k]) = name
\* the text with its first token, found at i, replaced by the whole text
\* after the first '==' of the item for its name
FirstTokenFilledWhole(s, i, items) ==
    SubSeq(s, 1, i - 1) \o FillRest(LastFillItem(SubSeq(s, i + 1, i + tokenAt(s, i) - 2), items))

\* C21: the value of a key=value item that is merged into the query, and the
\* value of a key==value item that is put in place of its token, is the
\* entire text after the first separator, further '=' included: 'q=a=b' adds
\* q -> 'a=b' and 'id==a==b' fills <id> with 'a==b'.
C21_WholeValue ==
    pc = "parsed" =>
        /\ \A k \in 1..Len(pa.requestItems) :
               IsQueryItem(pa.requestItems[k]) =>
                   /\ QueryKey(pa.requestItems[k]) \in DOMAIN URLQuery(pa.uri.RawQuery)
                   /\ \E j \in DOMAIN URLQuery(pa.uri.RawQuery)[QueryKey(pa.requestItems[k])] :
                          URLQuery(pa.uri.RawQuery)[QueryKey(pa.requestItems[k])][j]
                              = QueryValue(pa.requestItems[k])
        /\ \A i \in 1..Len(fill[4]) :
               (/\ tokenAt(fill[4], i) > 0
                /\ NoAngle(SubSeq(fill[4], 1, i - 1))
                /\ HasFillItem(SubSeq(fill[4], i + 1, i + tokenAt(fill[4], i) - 2),
                               pa.requestItems))
               => HasPrefix(fill[5], FirstTokenFilledWhole(fill[4], i, pa.requestItems))

NoQueryItem(items) == \A k \in 1..Len(items) : ~IsQueryItem(items[k])
\* the raw query of the URL text that url.Parse was given
InputRawQuery == ParseURL(fill[5]).u.RawQuery
\* the keys of a raw query, in the order they stand in it
RawKeys(raw) ==
    IF Len(raw) = 0 THEN <<>>
    ELSE [k \in 1..Len(Split(raw, <<"&">>)) |-> Cut(Split(raw, <<"&">>)[k], <<"=">>)[1]]
KeysAscend(keys) == \A k \in 1..(Len(keys) - 1) : keys[k] = keys[k + 1] \/ StrLess(keys[k], keys[k + 1])

UnsortedQueryText == <<"e", "?", "s", "e", "a", "r", "c", "h", "=", "x", "&", "b", "=", "1">>

\* C22 as stated: when no request item has the key=value form, buildURL
\* leaves the raw query string of the URL exactly as it was in the input:
\* same parameters, same order, same encoding.
C22_RawQueryUntouched ==
    (pc = "parsed" /\ NoQueryItem(pa.requestItems)) => pa.uri.RawQuery = InputRawQuery

\* C22 amended: buildURL writes the raw query anew in every case, as the
\* standard encoding of the query multi-map with its keys in ascending
\* order; when no request item has the key=value form the multi-map is the
\* one parsed from the query of the URL, so the parameters and the order of
\* the values of each key are kept while the order of the keys and the
\* encoding may change ('e?search=x&b=1' gives the query 'b=1&search=x').
C22_QueryEncodedAnew ==
    pc = "parsed" =>
        /\ KeysAscend(RawKeys(pa.uri.RawQuery))
        /\ pa.uri.RawQuery = ValuesEncode(URLQuery(pa.uri.RawQuery))
        /\ NoQueryItem(pa.requestItems) =>
               URLQuery(pa.uri.RawQuery) = URLQuery(InputRawQuery)
        /\ args = <<UnsortedQueryText>> => pa.uri.RawQuery = <<"b", "=", "1", "&", "s", "e", "a", "r", "c", "h", "=", "x">>

C22_Witness ==
    /\ pc = "parsed"
    /\ pa.uriStr = UnsortedQueryText
    /\ pa.requestItems = <<<<"i", "d", "=", "=", "4", "2">>>>
    /\ InputRawQuery = <<"s", "e", "a", "r", "c", "h", "=", "x", "&", "b", "=", "1">>
    /\ pa.uri.RawQuery = <<"b", "=", "1", "&", "s", "e", "a", "r", "c", "h", "=", "x">>

\* what one item alone adds to the query and to the template mapping
AddsQuery(item) == addQueryItems(EmptyMap, <<item>>) # EmptyMap
FillsToken(item) == formatMapping(EmptyMap, <<item>>) # EmptyMap

\* every text of at most four characters out of a letter and '='
ShortTokens == UNION {[1..n -> {"a", "="}] : n \in 0..4}

\* C23: for every token at most one of the query pattern and the
\* template-fill pattern matches, so no request item both adds a query
\* parameter and fills a template token; the pattern that matches is given
\* by what follows the first '=' of the token.
C23_MutuallyExclusive ==
    /\ ParseArgsDone =>
           \A k \in 1..Len(pa.requestItems) :
               /\ ~(reQueryItem(pa.requestItems[k]) /\ reURLFormat(pa.requestItems[k]))
               /\ ~(AddsQuery(pa.requestItems[k]) /\ FillsToken(pa.requestItems[k]))
               /\ reQueryItem(pa.requestItems[k]) <=> IsQueryItem(pa.requestItems[k])
               /\ reURLFormat(pa.requestItems[k]) <=> IsFillItem(pa.requestItems[k])
    /\ (pc = "parsed" /\ pa.requestItems = <<>>) =>
           \A t \in ShortTokens :
               /\ ~(reQueryItem(t) /\ reURLFormat(t))
               /\ ~(AddsQuery(t) /\ FillsToken(t))

C23_Witness ==
    /\ pc = "parsed"
    /\ pa.uriStr = <<"e", "/", "<", "a", ">">>
    /\ pa.requestItems = <<<<"a", "=", "b", "=", "=", "c">>, <<"a", "=", "=", "b", "=", "c">>>>
    /\ AddsQuery(pa.requestItems[1]) /\ ~FillsToken(pa.requestItems[1])
    /\ FillsToken(pa.requestItems[2]) /\ ~AddsQuery(pa.requestItems[2])
    /\ pa.uri.Path = <<"/", "b", "=", "c">>
    /\ pa.uri.RawQuery = <<"a", "=", "b">>

----------------------------------------------------------------------------
(* Properties of a run of the command, under Spec *)

\* C7: with no-auth requested doRequest never invokes the signer: the
\* dispatched request carries no Date and no Authorization header, whatever
\* the credentials, empty ones included.
C7_NoAuthSendsUnsigned ==
    flags.noAuth =>
        /\ msg = <<>> /\ date = <<>> /\ signer = NoSigner
        /\ \A i \in 1..Len(sent) :
               /\ DateKey \notin DOMAIN sent[i].Header
               /\ AuthorizationKey \notin DOMAIN sent[i].Header

C7_Witness ==
    /\ Len(sent) = 1
    /\ flags.noAuth
    /\ flags.accessKeyID = <<>>
    /\ flags.accessKeySecret = <<>>

\* C16: when the URL text left after all expansions cannot be parsed,
\* buildURL returns an error and no URL, parsePositionalArguments returns
\* that error, and the run ends with a failure exit: standard input and the
\* config are not read and no request is constructed, signed or dispatched.
C16_MalformedURLExits ==
    (FillURLDone /\ ~ParseURL(fill[5]).ok) =>
        /\ pc \in {"parse", "exit"}
        /\ pc = "exit" => pa.err = "parse"
        /\ pa.uri = NoURL
        /\ params = <<>>
        /\ flags \in CliFlags
        /\ req = NoRequest /\ signer = NoSigner /\ msg = <<>> /\ date = <<>>
        /\ sent = <<>>

C16_Witness ==
    /\ pc = "exit"
    /\ FillURLDone /\ ~ParseURL(fill[5]).ok
    /\ pa.err = "parse"
    /\ ~flags.noAuth
    /\ config # NoConfigFile

\* a step in which SignReq computes a canonical string
SignReqStep == msg' # msg
\* the request as doRequest has it before signing: method, body, and every
\* default header set
ReadyToSign ==
    /\ req # NoRequest
    /\ req.Method = pa.httpMethod
    /\ req.Body = requestBody(pa.httpMethod, params)
    /\ \A k \in DOMAIN defaultHeaders : HeaderGet(req.Header, k) = defaultHeaders[k]

\* C18: in every run with authentication enabled SignReq is invoked exactly
\* once, after the request has been created with its body and every default
\* header has been set, and before the pre-request hook and the network
\* call; nothing of the request changes between signing and dispatch, and
\* at most one request is dispatched per run.
C18_SignedOnceBeforeDispatch ==
    /\ [](/\ Len(sent) <= 1
          /\ (~flags.noAuth /\ (pc \in {"before", "do", "after", "done"} \/ Len(sent) > 0))
                 => (msg # <<>> /\ AuthorizationKey \in DOMAIN req.Header)
          /\ (~flags.noAuth /\ pc \in {"Run", "parsed", "initConfig", "doRequest",
                                       "setHeaders", "sign"})
                 => (msg = <<>> /\ sent = <<>>))
    /\ [][/\ SignReqStep =>
                 (/\ pc = "sign" /\ pc' = "before"
                  /\ msg = <<>> /\ sent = <<>> /\ ~flags.noAuth
                  /\ ReadyToSign)
          /\ (~flags.noAuth /\ msg # <<>>) => req' = req
          /\ sent' # sent => (sent' = <<req>> /\ pc = "do")]_vars

C18_Witness ==
    /\ pc = "done"
    /\ ~flags.noAuth
    /\ msg # <<>>
    /\ sent = <<req>>
    /\ Len(req.Body) > 0

\* the header names of root.go:46-53, as net/http keeps them
FixedHeaderNames ==
    {<<"C", "o", "n", "t", "e", "n", "t", "-", "T", "y", "p", "e">>,
     <<"U", "s", "e", "r", "-", "A", "g", "e", "n", "t">>,
     <<"A", "c", "c", "e", "p", "t">>,
     <<"A", "c", "c", "e", "p", "t", "-", "E", "n", "c", "o", "d", "i", "n", "g">>,
     <<"C", "o", "n", "n", "e", "c", "t", "i", "o", "n">>}
FixedHeaderValue(name) ==
    IF name = <<"U", "s", "e", "r", "-", "A", "g", "e", "n", "t">>
    THEN <<"g", "d", "h", "t", "t", "p", "/", "0", ".", "3", ".", "1">>
    ELSE IF name = <<"C", "o", "n", "n", "e", "c", "t", "i", "o", "n">>
    THEN <<"k", "e", "e", "p", "-", "a", "l", "i", "v", "e">>
    ELSE <<"a", "p", "p", "l", "i", "c", "a", "t", "i", "o", "n", "/", "j", "s", "o", "n">>
\* the number of newline-separated segments of a canonical string
Segments(m) == Len(Split(m, <<"\n">>))
SignedByDoRequest == ~flags.noAuth /\ msg # <<>>

\* C24: in every request that doRequest signs, the header set at signing
\* time is exactly the fixed default headers, none of which starts with
\* x-gd-; the custom-header block is empty, the canonical string has five
\* segments, and getInternalHeaders writes no entry into its result map, so
\* the signing ends normally.
C24_OnlyDefaultHeaders ==
    /\ pc # "panic"
    /\ pc = "sign" =>
           /\ DOMAIN req.Header = FixedHeaderNames
           /\ \A name \in FixedHeaderNames : req.Header[name] = <<FixedHeaderValue(name)>>
           /\ ~HasCustomHeader(req.Header)
           /\ getInternalHeaders(req.Header) = internalHeadersZero
           /\ convertHeadersToString(req.Header) = [panic |-> FALSE, s |-> <<>>]
    /\ SignedByDoRequest =>
           /\ Segments(msg) = 5
           /\ msg = req.Method \o <<"\n", "\n">> \o FixedHeaderValue(ContentTypeKey)
                    \o <<"\n">> \o date \o <<"\n">> \o convertURLToString(req.URL)
           /\ DOMAIN req.Header = FixedHeaderNames \cup {DateKey, AuthorizationKey}

C24_Witness ==
    /\ pc = "before"
    /\ SignedByDoRequest
    /\ Segments(msg) = 5
    /\ Len(req.URL.RawQuery) > 0
    /\ FixedHeaderNames \subseteq DOMAIN req.Header

\* two outcomes of signing with the same canonical string and the same
\* Authorization header
SameSignature(o1, o2) ==
    /\ o1.panic = o2.panic
    /\ o1.msg = o2.msg
    /\ HeaderGet(o1.req.Header, AuthorizationKey) = HeaderGet(o2.req.Header, AuthorizationKey)
\* the request of this run with another body
WithBody(b) == [req EXCEPT !.Body = b]
\* the request doRequest would sign for this method and URL with no body
BodilessRequest ==
    [NewRequest(req.Method, req.URL, <<>>) EXCEPT
        !.Header = [name \in FixedHeaderNames |-> <<FixedHeaderValue(name)>>]]

\* C25: the signature of the command does not depend on the request body:
\* doRequest never sets a Content-MD5 header, so runs with the same method,
\* URL, credentials and timestamp and different body bytes sign the same
\* canonical string, whose Content-MD5 segment is empty, and get the same
\* Authorization header.
C25_BodyIndependent ==
    /\ ContentMd5Canonical \notin DOMAIN req.Header
    /\ pc = "sign" =>
           \A b \in Bodies \cup {<<"x">>} : \A d \in Now :
               SameSignature(signUnlessNoAuth(flags.noAuth, clientSignature, req, d),
                             signUnlessNoAuth(flags.noAuth, clientSignature, WithBody(b), d))
    /\ SignedByDoRequest =>
           /\ Split(msg, <<"\n">>)[2] = <<>>
           /\ SameSignature([panic |-> FALSE, req |-> req, msg |-> msg],
                             SignReq(clientSignature, BodilessRequest, date))

C25_Witness ==
    /\ pc = "before"
    /\ SignedByDoRequest
    /\ Len(req.Body) > 0
    /\ Split(msg, <<"\n">>)[2] = <<>>
    /\ HeaderGet(req.Header, AuthorizationKey)
           = HeaderGet(SignReq(clientSignature, BodilessRequest, date).req.Header, AuthorizationKey)

\* the host of a URL text with its port: what stands between '://' and the
\* first '/', '?' or '#'
UpTo(s, stops) ==
    IF stops = {} THEN s ELSE SubSeq(s, 1, (CHOOSE i \in stops : \A j \in stops : i <= j) - 1)
HostPortOf(text) ==
    UpTo(Cut(text, <<":", "/", "/">>)[2],
         {i \in 1..Len(Cut(text, <<":", "/", "/">>)[2]) :
              Cut(text, <<":", "/", "/">>)[2][i] \in {"/", "?", "#"}})
HasEntry == config.state = "ok" /\ HostPortOf(fill[5]) \in DOMAIN config.Auths
EntryFlags ==
    [flags EXCEPT !.accessKeyID = config.Auths[HostPortOf(fill[5])].AccessKeyID,
                  !.accessKeySecret = config.Auths[HostPortOf(fill[5])].AccessKeySecret]
AfterInitConfig == pc \in {"doRequest", "setHeaders", "sign", "before", "do", "after", "done"}

\* C26: initConfig looks the config file up by the host of the resolved URL
\* with its port; when the file has an entry for that host its key id and
\* secret replace the credentials of the flags, non-empty ones included;
\* when it has no such entry, or there is no file, the flag values are used
\* unchanged with no error; a file that does not decode ends the run.
C26_CredentialResolution ==
    /\ [](/\ config.state = "malformed" => (~AfterInitConfig /\ sent = <<>> /\ req = NoRequest)
          /\ (AfterInitConfig /\ HasEntry) => flags = EntryFlags
          /\ (AfterInitConfig /\ ~HasEntry) => flags \in CliFlags
          /\ (AfterInitConfig /\ SignedByDoRequest) =>
                 (/\ signer.AccessKeyID = flags.accessKeyID
                  /\ signer.AccessKeySecret = flags.accessKeySecret))
    /\ [][pc = "initConfig" =>
              /\ config.state = "malformed" => (pc' = "exit" /\ flags' = flags)
              /\ config.state = "missing" => (pc' = "doRequest" /\ flags' = flags)
              /\ (config.state = "ok" /\ ~HasEntry) => (pc' = "doRequest" /\ flags' = flags)
              /\ HasEntry => (pc' = "doRequest" /\ flags' = EntryFlags)]_vars

C26_Witness ==
    /\ pc = "before"
    /\ SignedByDoRequest
    /\ HostPortOf(fill[5]) = <<"h", ":", "3">>
    /\ HasEntry
    /\ signer.AccessKeyID = <<"P", "K">>
    /\ signer.AccessKeySecret = <<"P", "S">>

====
